---- MODULE Spec2Model ----
(***************************************************************************)
(* The incremental cache pipeline of patriot_center_backend: the three     *)
(* builders load_or_update_starters_cache, load_or_update_replacement_     *)
(* score_cache and load_or_update_ffWAR_cache, each resuming from the      *)
(* progress marker (Last_Updated_Season, Last_Updated_Week) persisted with *)
(* its cache.  One behaviour follows one builder against its own cache     *)
(* file through a sequence of runs; the league table, the upstream         *)
(* "current" season and week and the upstream data are the environment.    *)
(***************************************************************************)
EXTENDS Integers, Sequences, FiniteSets, TLC

\* ------------------------------------------------------------- bounds ----
\* Longest prefix of LEAGUE_IDS that is configured.
MaxSeasons == 2
\* The low values of last_scored_leg that are tried (besides those at the caps).
MaxLowWeek == 1
\* Runs of the builder in one behaviour.
MaxRuns == 2
\* Failed calls, killed runs and changes of the upstream in one behaviour.
MaxEvents == 1
\* Managers the users call lists.
MaxManagers == 2
\* Starting slots in one matchup.
MaxStarters == 2
\* Scored players a position may have beyond its rank cutoff.
MaxSpare == 1
MaxPasses == 2

\* -------------------------------------------------- program constants ----
\* `season in [2019, 2020]`: the seasons with a 13-week fantasy regular season
ShortSeasonA == 2019
ShortSeasonB == 2020
LastSeventeenWeekYear == 2020
ShortFantasyWeeks == 13
FantasyWeeks == 14
SeventeenWeeks == 17
EighteenWeeks == 18
HistoricalYears == 3
\* fetch_starters_for_week: the hardcoded exceptions
CodySeason == 2019
CodyTakeoverWeek == 4
DaveySeason == 2024
DaveyRosterId == 4
\* get_roster_id's `return None` (roster ids start at 1)
None == 0
\* _fetch_replacement_score_for_week: 32 teams; QB13, RB31, WR31, TE13
NflTeams == 32
ShallowCutoff == 13
DeepCutoff == 31

Builders == {"starters", "replacement", "ffWAR"}
MarkerKeys == {"Last_Updated_Season", "Last_Updated_Week"}

\* LEAGUE_IDS.keys(): the configured seasons in the order of the table.  The
\* lists tried are the consecutive seasons from the last 13-week season on, so
\* that both eras of the week policy occur.
LeagueIdLists == {[i \in 1..n |-> ShortSeasonB + i - 1] : n \in 1..MaxSeasons}

\* Values of settings.last_scored_leg the league call may return.
WeekInputs == (0..MaxLowWeek) \cup {FantasyWeeks, FantasyWeeks + 1,
                                    EighteenWeeks, EighteenWeeks + 1}

Range(s) == {s[i] : i \in DOMAIN s}

Min(S) == CHOOSE x \in S : \A y \in S : x <= y

\* sorted(years): the ascending sequence of a set of years.
RECURSIVE SortedSeq(_)
SortedSeq(S) == IF S = {} THEN <<>>
                ELSE LET m == Min(S) IN <<m>> \o SortedSeq(S \ {m})

\* (season, week) pairs compared lexicographically.
LexLe(a, b) == a[1] < b[1] \/ (a[1] = b[1] /\ a[2] <= b[2])
LexLt(a, b) == a[1] < b[1] \/ (a[1] = b[1] /\ a[2] < b[2])

\* ------------------------------------------------------------ the state --
VARIABLES
    builder,      \* which load_or_update_* function this behaviour follows
    leagueIds,    \* LEAGUE_IDS.keys()
    upSeason,     \* league_info["season"] upstream
    upWeek,       \* settings.last_scored_leg upstream
    upVersion,    \* the upstream data: a fetch returns the version it sees
    disk,         \* the cache file: [exists |-> FALSE] or [exists, cache]
    pc,           \* "idle" | "year" | "week" | "save" | "done" | "aborted" | "killed"
    cache,        \* the local dict `cache` of the running function
    current_season, current_week,            \* resolved at the start of the run
    last_updated_season, last_updated_week,  \* the locals of the loop
    yi,           \* position of the for-loop in the list of years
    week,         \* the week the inner for-loop is about to fetch
    max_weeks,    \* the last week of weeks_to_update
    returned,     \* what the last completed run returned
    loaded,       \* history: the cache as _load_cache returned it, this run
    fetched,      \* history: the (season, week) fetched in this run, in order
    failedAt,     \* history: the (season, week) whose call failed in this run
    sameEnv,      \* history: this run started from the cache persisted by a
                  \* completed run, with the same upstream as that run saw
    lastEnv,      \* history: the upstream the last completed run saw
    runs, events, \* counters for the bounds
    files,        \* the cache files of the three builders, as of the last
                  \* time the process left each builder
    snapshot,     \* REPLACEMENT_SCORES and PLAYER_DATA of the ffWAR module
    passes,       \* how many times the process went through the builders
    fn,           \* the per-week function under call, "none" in the orchestrator
    args,         \* its arguments and what it reads: API responses, PLAYER_IDS,
                  \* the caches
    ret           \* Pending before the call; then what it returned or raised

vars == <<builder, leagueIds, upSeason, upWeek, upVersion, disk, pc, cache,
          current_season, current_week, last_updated_season,
          last_updated_week, yi, week, max_weeks, returned, loaded, fetched,
          failedAt, sameEnv, lastEnv, runs, events, files, snapshot, passes,
          fn, args, ret>>

NoFile == [exists |-> FALSE]
NoCache == [keys |-> {}, Last_Updated_Season |-> 0, Last_Updated_Week |-> 0,
            years |-> {}, data |-> <<>>]
NoEnv == <<0, 0, 0>>
NoWeek == <<0, 0>>
NoFiles == [b \in {"starters", "replacement", "ffWAR"} |-> NoFile]
NoSnapshot == [loaded |-> FALSE]

\* The outcome of a call: not made yet, a value returned, an exception raised.
Pending == [done |-> FALSE]
Return(v) == [done |-> TRUE, raised |-> FALSE, value |-> v]
Raise == [done |-> TRUE, raised |-> TRUE]

Env == <<upSeason, upWeek, upVersion>>

\* ------------------------------------------------------ cache structure --
\* cache.get(key, 0)
GetSeason(c) == IF "Last_Updated_Season" \in c.keys THEN c.Last_Updated_Season ELSE 0
GetWeek(c) == IF "Last_Updated_Week" \in c.keys THEN c.Last_Updated_Week ELSE 0
Marker(c) == <<GetSeason(c), GetWeek(c)>>

\* cache["Last_Updated_Week"] = w
SetWeek(c, w) == [c EXCEPT !.keys = @ \cup {"Last_Updated_Week"},
                           !.Last_Updated_Week = w]
\* cache["Last_Updated_Season"] = str(y); cache["Last_Updated_Week"] = w
SetMarker(c, y, w) == [c EXCEPT !.keys = MarkerKeys,
                                !.Last_Updated_Season = y,
                                !.Last_Updated_Week = w]
\* cache[str(y)][str(w)] = e, creating cache[str(y)] when it is missing
PutEntry(c, y, w, e) ==
    [c EXCEPT !.years = @ \cup {y},
              !.data = [p \in (DOMAIN @) \cup {<<y, w>>} |->
                           IF p = <<y, w>> THEN e ELSE @[p]]]
HasEntry(c, y, w) == <<y, w>> \in DOMAIN c.data

\* (a loop over the configured seasons only)
LoopConfiguredYears(b, ids) == ids

\* The years the builder iterates over.
LoopYears(b, ids) ==
    IF b = "replacement"
    THEN LET first_year == Min(Range(ids))
         IN SortedSeq(Range(ids) \cup
                      {first_year - k : k \in 1..HistoricalYears})
    ELSE ids

\* load_cache / _load_cache when the file is absent.
BaselineCache(b, ids) ==
    [keys |-> MarkerKeys, Last_Updated_Season |-> 0, Last_Updated_Week |-> 0,
     years |-> Range(LoopYears(b, ids)), data |-> <<>>]

LoadCache(b, ids, d) == IF d.exists THEN d.cache ELSE BaselineCache(b, ids)

\* The marker of the persisted cache; (0, 0) while no cache was persisted.
PersistedMarker(d) == IF d.exists THEN Marker(d.cache) ELSE <<0, 0>>

\* ----------------------------------------------------- era week policy --
\* (a policy that counts the playoff weeks: 16 and 17)
StartersPlayoffWeeks(season, cs, cw) ==
    IF season = cs THEN cw
    ELSE IF season \in {ShortSeasonA, ShortSeasonB} THEN ShortFantasyWeeks + 3
    ELSE FantasyWeeks + 3

StartersMaxWeeks(season, cs, cw) ==
    IF season = cs THEN cw
    ELSE IF season \in {ShortSeasonA, ShortSeasonB} THEN ShortFantasyWeeks
    ELSE FantasyWeeks

\* (a policy of 18 weeks for every season that is not the current one)
ReplacementAlwaysEighteen(season, cs, cw) ==
    IF season = cs THEN cw ELSE EighteenWeeks

ReplacementMaxWeeks(season, cs, cw) ==
    IF season = cs THEN cw
    ELSE IF season <= LastSeventeenWeekYear THEN SeventeenWeeks
    ELSE EighteenWeeks

FfWARMaxWeeks(season, cs, cw) ==
    IF season = cs THEN cw
    ELSE IF season \in {ShortSeasonA, ShortSeasonB} THEN ShortFantasyWeeks
    ELSE FantasyWeeks

GetMaxWeeks(b, season, cs, cw) ==
    CASE b = "starters" -> StartersMaxWeeks(season, cs, cw)
      [] b = "replacement" -> ReplacementMaxWeeks(season, cs, cw)
      [] OTHER -> FfWARMaxWeeks(season, cs, cw)

\* (a builder that takes the week the league call returned as it is)
CapNever(b, w) == w

\* The cap each builder puts on the week the league call returned.
CapCurrentWeek(b, w) ==
    LET cap == IF b = "replacement" THEN EighteenWeeks ELSE FantasyWeeks
    IN IF w > cap THEN cap ELSE w

\* ----------------------------------------------------------------- Init --
Init ==
    /\ builder \in Builders
    /\ leagueIds \in LeagueIdLists
    /\ upSeason \in Range(leagueIds)
    /\ upWeek \in WeekInputs
    /\ upVersion = 1
    /\ disk = NoFile
    /\ pc = "idle"
    /\ cache = NoCache
    /\ current_season = 0 /\ current_week = 0
    /\ last_updated_season = 0 /\ last_updated_week = 0
    /\ yi = 0 /\ week = 0 /\ max_weeks = 0
    /\ returned = NoCache
    /\ loaded = NoCache
    /\ fetched = <<>>
    /\ failedAt = NoWeek
    /\ sameEnv = FALSE
    /\ lastEnv = NoEnv
    /\ runs = 0 /\ events = 0
    /\ files = NoFiles /\ snapshot = NoSnapshot /\ passes = 0
    /\ fn = "none" /\ args = <<>> /\ ret = Pending

Resting == pc \in {"idle", "done", "aborted", "killed"}

process == <<files, snapshot, passes>>
config == <<builder, leagueIds, process>>
upstream == <<upSeason, upWeek, upVersion>>
locals == <<cache, current_season, current_week, last_updated_season,
            last_updated_week, yi, week, max_weeks>>
history == <<loaded, fetched, failedAt, sameEnv, lastEnv>>
unit == <<fn, args, ret>>

\* ---------------------------------------------------------- environment --
\* Another week is scored, or the next configured season opens at week 0.
TimePasses ==
    /\ Resting
    /\ events < MaxEvents
    /\ \/ \E w \in WeekInputs : w > upWeek /\ upWeek' = w /\ upSeason' = upSeason
       \/ /\ upSeason + 1 \in Range(leagueIds)
          /\ upSeason' = upSeason + 1
          /\ upWeek' = 0
    /\ events' = events + 1
    /\ UNCHANGED <<config, unit, upVersion, disk, pc, locals, returned, history,
                   runs>>

\* The upstream's data change: a later fetch of any week returns other data.
UpstreamChanges ==
    /\ Resting
    /\ events < MaxEvents
    /\ upVersion' = upVersion + 1
    /\ events' = events + 1
    /\ UNCHANGED <<config, unit, upSeason, upWeek, disk, pc, locals, returned,
                   history, runs>>

\* ------------------------------------------------- load_or_update_* ------
\* The head of the function: load the cache, resolve the current season and
\* week (capped), and, in the starters builder only, read the marker once.
StartRun ==
    /\ Resting
    /\ runs < MaxRuns
    /\ runs' = runs + 1
    /\ LET c == LoadCache(builder, leagueIds, disk)
       IN /\ cache' = c
          /\ loaded' = c
          /\ last_updated_season' = GetSeason(c)
          /\ last_updated_week' = GetWeek(c)
    /\ current_season' = upSeason
    /\ current_week' = CapCurrentWeek(builder, upWeek)
    /\ yi' = 1
    /\ week' = 0 /\ max_weeks' = 0
    /\ fetched' = <<>>
    /\ failedAt' = NoWeek
    /\ sameEnv' = (disk.exists /\ lastEnv = Env)
    /\ pc' = "year"
    /\ UNCHANGED <<config, unit, upstream, disk, returned, lastEnv, events>>

\* get_current_season_and_week raises when the league call fails: the run ends
\* before the loop, with nothing saved.
LeagueCallFails ==
    /\ Resting
    /\ runs < MaxRuns
    /\ events < MaxEvents
    /\ runs' = runs + 1
    /\ events' = events + 1
    /\ cache' = LoadCache(builder, leagueIds, disk)
    /\ loaded' = LoadCache(builder, leagueIds, disk)
    /\ fetched' = <<>>
    /\ failedAt' = NoWeek
    /\ sameEnv' = FALSE
    /\ pc' = "aborted"
    /\ UNCHANGED <<config, unit, upstream, disk, current_season, current_week,
                   last_updated_season, last_updated_week, yi, week,
                   max_weeks, returned, lastEnv>>

\* (a loop that skips no season)
SkipNoYear(lus, year) == FALSE

\* `if last_updated_season != 0: if year < last_updated_season: continue`
SkipYear(lus, year) == lus # 0 /\ year < lus

\* `if last_updated_season < year: cache['Last_Updated_Week'] = 0`
ResetsWeek(lus, year) == lus # 0 /\ lus < year

\* `if last_updated_season == int(current_season) and
\*     last_updated_week == current_week: break`
UpToDate(lus, luw, cs, cw) == lus = cs /\ luw = cw

\* `if year == current_season or year == last_updated_season`
ResumesInYear(year, cs, lus) == year = cs \/ year = lus

\* (a resume that starts every season again from week 1)
FirstWeekAlwaysOne(resume, luw) == 1

\* The first week of weeks_to_update.
FirstWeekToUpdate(resume, luw) == IF resume THEN luw + 1 ELSE 1

\* One iteration of `for year in years`, up to the inner loop over the weeks.
YearStep ==
    /\ pc = "year"
    /\ yi <= Len(LoopYears(builder, leagueIds))
    /\ LET year == LoopYears(builder, leagueIds)[yi]
           \* the replacement and ffWAR builders read the marker in the loop;
           \* the starters builder read it once, before the loop
           lus == IF builder = "starters" THEN last_updated_season
                  ELSE GetSeason(cache)
           luw == IF builder = "starters" THEN last_updated_week
                  ELSE GetWeek(cache)
           c1 == IF ResetsWeek(lus, year) THEN SetWeek(cache, 0) ELSE cache
           mw == GetMaxWeeks(builder, year, current_season, current_week)
           resume == ResumesInYear(year, current_season, lus)
           luw1 == IF resume THEN GetWeek(c1) ELSE luw
           from == FirstWeekToUpdate(resume, luw1)
       IN /\ last_updated_season' = lus
          /\ IF SkipYear(lus, year)
             THEN /\ yi' = yi + 1
                  /\ last_updated_week' = luw
                  /\ UNCHANGED <<cache, pc, week, max_weeks>>
             ELSE IF UpToDate(lus, luw, current_season, current_week)
             THEN /\ cache' = c1
                  /\ pc' = "save"
                  /\ last_updated_week' = luw
                  /\ UNCHANGED <<yi, week, max_weeks>>
             ELSE IF from > mw
             THEN /\ cache' = c1
                  /\ yi' = yi + 1
                  /\ last_updated_week' = luw1
                  /\ UNCHANGED <<pc, week, max_weeks>>
             ELSE /\ cache' = c1
                  /\ pc' = "week"
                  /\ week' = from
                  /\ max_weeks' = mw
                  /\ last_updated_week' = luw1
                  /\ UNCHANGED yi
    /\ UNCHANGED <<config, unit, upstream, disk, current_season, current_week,
                   returned, history, runs, events>>

\* The loop over the years is exhausted.
YearsDone ==
    /\ pc = "year"
    /\ yi > Len(LoopYears(builder, leagueIds))
    /\ pc' = "save"
    /\ UNCHANGED <<config, unit, upstream, disk, locals, returned, history, runs, events>>

\* What the per-week fetch stores for (year, w) when its calls succeed.  The
\* replacement builder adds the 3-year averages when str(year - 3) is a key.
WeekEntry(b, c, year) ==
    [ver |-> upVersion, ok |-> TRUE,
     avg |-> (b = "replacement" /\ (year - HistoricalYears) \in c.years)]

\* fetch_starters_for_week returns {} when the users call fails.
EmptyEntry == [ver |-> 0, ok |-> FALSE, avg |-> FALSE]

\* The rest of one iteration of `for week in weeks_to_update`.
AfterFetch(c, year, e) ==
    /\ cache' = SetMarker(PutEntry(c, year, week, e), year, week)
    /\ fetched' = Append(fetched, <<year, week>>)
    /\ IF week + 1 > max_weeks
       THEN /\ pc' = "year"
            /\ yi' = yi + 1
            /\ UNCHANGED week
       ELSE /\ week' = week + 1
            /\ UNCHANGED <<pc, yi>>

\* One iteration of the inner loop whose fetch succeeds.
WeekStep ==
    /\ pc = "week"
    /\ LET year == LoopYears(builder, leagueIds)[yi]
       IN AfterFetch(cache, year, WeekEntry(builder, cache, year))
    /\ UNCHANGED <<config, unit, upstream, disk, current_season, current_week,
                   last_updated_season, last_updated_week, max_weeks,
                   returned, loaded, failedAt, sameEnv, lastEnv, runs,
                   events>>

\* (a builder whose fetch never raises: every failure is stored as an empty week)
RaisesNever(b) == FALSE

\* Whether the builder's per-week fetch raises when its call fails:
\* _fetch_replacement_score_for_week and _fetch_ffWAR do,
\* fetch_starters_for_week returns {}.
RaisesOnFailure(b) == b # "starters"

\* One iteration of the inner loop whose call fails.  fetch_starters_for_week
\* returns {} and the loop goes on; _fetch_replacement_score_for_week raises
\* (the stats call failed, or a position has too few players) and _fetch_ffWAR
\* raises KeyError (a week or key missing from its inputs): the exception
\* leaves load_or_update_* before save_cache.
WeekStepFails ==
    /\ pc = "week"
    /\ events < MaxEvents
    /\ events' = events + 1
    /\ failedAt' = <<LoopYears(builder, leagueIds)[yi], week>>
    /\ IF ~RaisesOnFailure(builder)
       THEN /\ AfterFetch(cache, LoopYears(builder, leagueIds)[yi], EmptyEntry)
            /\ UNCHANGED <<last_updated_season, last_updated_week, max_weeks>>
       ELSE /\ pc' = "aborted"
            /\ fetched' = Append(fetched, <<LoopYears(builder, leagueIds)[yi], week>>)
            /\ UNCHANGED <<cache, yi, week, last_updated_season,
                           last_updated_week, max_weeks>>
    /\ UNCHANGED <<config, unit, upstream, disk, current_season, current_week,
                   returned, loaded, sameEnv, lastEnv, runs>>

\* The process is killed while the loop runs: the local cache is lost.
Killed ==
    /\ pc = "week"
    /\ events < MaxEvents
    /\ events' = events + 1
    /\ pc' = "killed"
    /\ UNCHANGED <<config, unit, upstream, disk, locals, returned, history, runs>>

\* (a save that writes nothing)
SaveSkipped(d, c) == d

\* save_cache / _save_cache: the file holds the whole structure.
SavedFile(d, c) == [exists |-> TRUE, cache |-> c]

\* (a pop that leaves Last_Updated_Week in the structure)
PopSeasonOnly(c) == [c EXCEPT !.keys = @ \ {"Last_Updated_Season"},
                              !.Last_Updated_Season = 0]

\* cache.pop("Last_Updated_Season", None); cache.pop("Last_Updated_Week", None)
PopMarker(c) == [c EXCEPT !.keys = {}, !.Last_Updated_Season = 0,
                          !.Last_Updated_Week = 0]

\* The tail of the function: save the cache, pop the marker, return.
SaveAndReturn ==
    /\ pc = "save"
    /\ disk' = SavedFile(disk, cache)
    /\ returned' = PopMarker(cache)
    /\ cache' = PopMarker(cache)
    /\ lastEnv' = Env
    /\ pc' = "done"
    /\ UNCHANGED <<config, unit, upstream, current_season, current_week,
                   last_updated_season, last_updated_week, yi, week,
                   max_weeks, loaded, fetched, failedAt, sameEnv, runs,
                   events>>

Next ==
    \/ TimePasses
    \/ UpstreamChanges
    \/ StartRun
    \/ LeagueCallFails
    \/ YearStep
    \/ YearsDone
    \/ WeekStep
    \/ WeekStepFails
    \/ Killed
    \/ SaveAndReturn

Spec == Init /\ [][Next]_vars

\* ================================================================ claims ==
IsPrefix(s, t) == Len(s) <= Len(t) /\ \A i \in 1..Len(s) : s[i] = t[i]

InRun == pc \in {"year", "week", "save"}

\* The loaded marker is (S, w) and the resolved current is (S, c), w < c, with
\* c the week the league call returned (within the builder's cap).
ResumesInCurrentSeason ==
    /\ InRun
    /\ GetSeason(loaded) = current_season
    /\ GetWeek(loaded) < current_week
    /\ upWeek = current_week

\* Weeks w+1..c of season S, ascending.
MissingWeeks ==
    [i \in 1..(current_week - GetWeek(loaded)) |->
        <<current_season, GetWeek(loaded) + i>>]

C2_SecondRunIdempotent ==
    (sameEnv /\ pc \in {"year", "week", "save", "done"}) =>
        /\ fetched = <<>>
        /\ (pc = "done" => disk.cache = loaded)
\* C3: the marker of the persisted cache, compared lexicographically, never
\* decreases from one persisted cache to the next.
C3_PersistedMarkerNeverDecreases ==
    [][LexLe(PersistedMarker(disk), PersistedMarker(disk'))]_vars

\* The weeks this run has computed so far: the fetched ones, less the one whose
\* fetch raised.
Computed ==
    IF pc = "aborted" /\ failedAt # NoWeek
    THEN SubSeq(fetched, 1, Len(fetched) - 1)
    ELSE fetched

OnDisk(p) == disk.exists /\ p \in DOMAIN disk.cache.data

C5_FailedWeekIsRetried ==
    (failedAt # NoWeek /\ pc \in {"done", "aborted"}) =>
        /\ ~OnDisk(failedAt)
        /\ LexLt(PersistedMarker(disk), failedAt)

C7_FirstRunFillsUpToCurrent ==
    (pc = "save" /\ ~disk.exists /\ failedAt = NoWeek /\ current_week >= 1) =>
        /\ \A y \in Range(leagueIds) :
               y < current_season =>
                   \A w \in 1..GetMaxWeeks(builder, y, current_season, current_week) :
                       HasEntry(cache, y, w)
        /\ \A w \in 1..current_week : HasEntry(cache, current_season, w)
        /\ Marker(cache) = <<current_season, current_week>>

\* C8: no run fetches a (season, week) lexicographically after the resolved
\* current (season, week), and no fetch begins once the marker equals it.
C8_NoFetchPastCurrent ==
    pc \in {"year", "week", "save"} =>
        /\ \A i \in 1..Len(fetched) :
               LexLe(fetched[i], <<current_season, current_week>>)
        /\ pc = "week" => Marker(cache) # <<current_season, current_week>>

\* An entry the run loaded, at or before the marker it loaded.
Settled(p) == p \in DOMAIN loaded.data /\ LexLe(p, Marker(loaded))

\* C9: a run leaves every entry at or before the loaded marker as it was
\* loaded: it is not fetched again, and it is the same in the local cache and
\* in the file, whatever the upstream returns now.
C9_SettledEntriesUntouched ==
    pc # "idle" =>
        /\ \A i \in 1..Len(fetched) : ~Settled(fetched[i])
        /\ \A p \in DOMAIN loaded.data :
               Settled(p) =>
                   /\ OnDisk(p) /\ disk.cache.data[p] = loaded.data[p]
                   /\ pc \in {"year", "week", "save", "done"} =>
                          /\ p \in DOMAIN cache.data
                          /\ cache.data[p] = loaded.data[p]

C9_Witness ==
    /\ pc = "done"
    /\ fetched # <<>>
    /\ \E p \in DOMAIN loaded.data :
           Settled(p) /\ disk.cache.data[p].ver # upVersion
    /\ \E i \in 1..Len(fetched) : disk.cache.data[fetched[i]].ver = upVersion

\* C10: the structure a run returns holds neither Last_Updated_Season nor
\* Last_Updated_Week; the structure the same run persisted holds both.
C10_MarkerPersistedNotReturned ==
    pc = "done" =>
        /\ returned.keys \cap MarkerKeys = {}
        /\ MarkerKeys \subseteq disk.cache.keys

C10_Witness ==
    /\ pc = "done"
    /\ fetched # <<>>
    /\ Marker(disk.cache)[1] # 0

\* ===================================================== per-week functions ==
\* The functions the builders call for one (season, week), each applied to
\* inputs drawn from bounded sets: UnitSpec.
orchestrator == <<config, upstream, disk, pc, locals, returned, history,
                  runs, events>>

\* The orchestrator at rest while a per-week function is exercised.
OrchestratorAtRest ==
    /\ builder = "starters"
    /\ leagueIds = <<ShortSeasonB>>
    /\ upSeason = ShortSeasonB /\ upWeek = 0 /\ upVersion = 1
    /\ disk = NoFile
    /\ pc = "idle"
    /\ cache = NoCache
    /\ current_season = 0 /\ current_week = 0
    /\ last_updated_season = 0 /\ last_updated_week = 0
    /\ yi = 0 /\ week = 0 /\ max_weeks = 0
    /\ returned = NoCache
    /\ loaded = NoCache
    /\ fetched = <<>>
    /\ failedAt = NoWeek
    /\ sameEnv = FALSE
    /\ lastEnv = NoEnv
    /\ runs = 0 /\ events = 0
    /\ files = NoFiles /\ snapshot = NoSnapshot /\ passes = 0

\* --------------------------------------------- fetch_starters_for_week ----
\* USERNAME_TO_REAL_NAME values: the managers of a week's data, in order.
ManagerNames == <<"Davey", "Cody", "Tommy">>

\* What one API call made for a manager can give: a non-200 status, a 200
\* response that does not list the manager's roster, or one that does.
CallOutcomes == {"fail", "absent", "found"}

\* The display names the users call lists, in its order: names of the table
\* in two orders, and names the table does not have.
DisplayNameLists ==
    {<<"dpereira7", "codestoppable", "tommylowry">>,
     <<"tommylowry", "codestoppable", "dpereira7">>,
     <<"guest", "visitor", "stranger">>}

\* USERNAME_TO_REAL_NAME.get(manager['display_name'], "Unknown Manager")
UsernameToRealName(display_name) ==
    CASE display_name = "dpereira7" -> "Davey"
      [] display_name = "codestoppable" -> "Cody"
      [] display_name = "tommylowry" -> "Tommy"
      [] OTHER -> "Unknown Manager"

\* The inputs of fetch_starters_for_week: season, week, the users call, the
\* display names it lists and, per manager, the outcome of the rosters call
\* and of the matchups call.
StartersArgs ==
    [season : {CodySeason, DaveySeason},
     week : {CodyTakeoverWeek - 1, CodyTakeoverWeek},
     usersOk : BOOLEAN,
     display_names : DisplayNameLists,
     managers : UNION {[1..n -> [rosters : CallOutcomes,
                                 matchups : CallOutcomes]] :
                          n \in 0..MaxManagers}]

\* get_roster_id: None when the rosters call fails or no roster is owned by
\* the user; manager i owns roster i.
GetRosterId(m, i) == IF m.rosters = "found" THEN i ELSE None

\* (a correction that is not tied to the weeks before the handoff)
RealNameAllSeason(season, wk, name) ==
    IF season = CodySeason /\ name = "Cody" THEN "Tommy" ELSE name

\* `if int(season) == 2019 and week < 4 and real_name == "Cody"`
RealName(season, wk, name) ==
    IF season = CodySeason /\ wk < CodyTakeoverWeek /\ name = "Cody"
    THEN "Tommy" ELSE name

\* (a hardcode that is not tied to the season)
RosterIdOfAnySeason(season, real_name, m, i) ==
    IF GetRosterId(m, i) = None /\ real_name = "Davey"
    THEN DaveyRosterId
    ELSE GetRosterId(m, i)

\* roster_id = get_roster_id(...), with the hardcoded exception
RosterIdOf(season, real_name, m, i) ==
    IF GetRosterId(m, i) = None /\ season = DaveySeason /\ real_name = "Davey"
    THEN DaveyRosterId
    ELSE GetRosterId(m, i)

\* get_starters_data's `return None`
NoData == [roster_id |-> None]

\* get_starters_data as fetch_starters_for_week sees it: None when the
\* matchups call fails or the roster is not in the matchups.
StartersDataOf(m, roster_id) ==
    IF m.matchups = "found" THEN [roster_id |-> roster_id] ELSE NoData

\* week_data after the first n managers of the loop.
RECURSIVE WeekData(_, _)
WeekData(a, n) ==
    IF n = 0 THEN <<>>
    ELSE LET prev == WeekData(a, n - 1)
             m == a.managers[n]
             real_name == RealName(a.season, a.week,
                                   UsernameToRealName(a.display_names[n]))
             roster_id == RosterIdOf(a.season, real_name, m, n)
             starters_data == StartersDataOf(m, roster_id)
         IN IF roster_id = None THEN prev
            ELSE IF starters_data = NoData THEN prev
            ELSE [k \in (DOMAIN prev) \cup {real_name} |->
                     IF k = real_name THEN starters_data ELSE prev[k]]

FetchStartersForWeek(a) ==
    IF ~a.usersOk THEN <<>> ELSE WeekData(a, Len(a.managers))

CallFetchStartersForWeek ==
    /\ fn = "fetch_starters_for_week"
    /\ ret = Pending
    /\ ret' = Return(FetchStartersForWeek(args))
    /\ UNCHANGED <<orchestrator, fn, args>>

\* --------------------------------------------------- get_starters_data ----
\* Points are counted in thousandths; Total_Points is quantized to hundredths.
PlayerIdSet == {"p1", "p2"}

\* PLAYER_IDS.get(player_id, {}): no entry, an entry without a position, or a
\* full_name and a position (two ids may carry the same full_name).
PlayerInfos ==
    {[known |-> FALSE, full_name |-> "Unknown Player", position |-> "Unknown Position"],
     [known |-> TRUE, full_name |-> "A", position |-> "Unknown Position"],
     [known |-> TRUE, full_name |-> "A", position |-> "WR"],
     [known |-> TRUE, full_name |-> "B", position |-> "RB"]}

\* matchup['players_points'].get(player_id): a score, or no entry.
PointsEntries ==
    {[has |-> FALSE, points |-> 0],
     [has |-> TRUE, points |-> 1004],
     [has |-> TRUE, points |-> 2018]}

\* `placed` is what the league's playoff bracket says of the roster for the
\* week: the place it finished, None in a regular-season week and for a
\* roster that did not place.  get_starters_data does not read it.
StartersDataArgs ==
    [matchups : CallOutcomes,
     placed : {None, 1, 3},
     starters : UNION {[1..n -> PlayerIdSet] : n \in 0..MaxStarters},
     players_points : [PlayerIdSet -> PointsEntries],
     PLAYER_IDS : [PlayerIdSet -> PlayerInfos]]

\* Decimal(x).quantize(Decimal('0.01')): to the nearest hundredth, ties to
\* the even hundredth.
Quantize(x) ==
    LET q == x \div 10
        r == x % 10
    IN IF r < 5 THEN 10 * q
       ELSE IF r > 5 THEN 10 * (q + 1)
       ELSE IF q % 2 = 0 THEN 10 * q ELSE 10 * (q + 1)

\* (a default of one point for a starter without a score)
PlayerScoreOrOne(a, player_id) ==
    IF a.players_points[player_id].has
    THEN a.players_points[player_id].points ELSE 1

\* matchup['players_points'].get(player_id, 0)
PlayerScore(a, player_id) ==
    IF a.players_points[player_id].has
    THEN a.players_points[player_id].points ELSE 0

\* manager_data after the first n starters: the running Total_Points and the
\* player records, keyed by full_name.
RECURSIVE ManagerData(_, _)
ManagerData(a, n) ==
    IF n = 0 THEN [Total_Points |-> 0, players |-> <<>>]
    ELSE LET prev == ManagerData(a, n - 1)
             player_id == a.starters[n]
             info == a.PLAYER_IDS[player_id]
             player_score == PlayerScore(a, player_id)
         IN IF info.full_name = "Unknown Player" THEN prev
            ELSE IF info.position = "Unknown Position" THEN prev
            ELSE [Total_Points |-> prev.Total_Points + player_score,
                  players |->
                      [k \in (DOMAIN prev.players) \cup {info.full_name} |->
                          IF k = info.full_name
                          THEN [points |-> player_score,
                                position |-> info.position]
                          ELSE prev.players[k]]]

GetStartersData(a) ==
    IF a.matchups # "found" THEN Return("None")
    ELSE LET manager_data == ManagerData(a, Len(a.starters))
         IN Return([manager_data EXCEPT !.Total_Points = Quantize(@)])

CallGetStartersData ==
    /\ fn = "get_starters_data"
    /\ ret = Pending
    /\ ret' = GetStartersData(args)
    /\ UNCHANGED <<orchestrator, fn, args>>

\* ------------------------------------- _fetch_replacement_score_for_week --
Positions == {"QB", "RB", "WR", "TE"}

\* The rank whose score is the position's replacement score.
RankCutoffAllShallow(position) == ShallowCutoff

RankCutoff(position) ==
    IF position \in {"QB", "TE"} THEN ShallowCutoff ELSE DeepCutoff

\* The inputs: the status of the stats call, the number of TEAM_ entries, and
\* per position the number of known players with a pts_half_ppr.
ReplacementArgs ==
    [ok : BOOLEAN,
     teams : {0, NflTeams - 4, NflTeams},
     seed : {0, 1},
     scored : [QB : (ShallowCutoff - 1)..(ShallowCutoff + MaxSpare),
               RB : (DeepCutoff - 1)..(DeepCutoff + MaxSpare),
               WR : (DeepCutoff - 1)..(DeepCutoff + MaxSpare),
               TE : (ShallowCutoff - 1)..(ShallowCutoff + MaxSpare)]]

\* pts_half_ppr of the i-th scored player of a position, in tenths: unsorted,
\* with repeated values.
PointsOf(seed, position, i) ==
    LET shift == CASE position = "QB" -> 0 [] position = "RB" -> 3
                   [] position = "WR" -> 11 [] OTHER -> 17
    IN (7 * i + 5 * seed + shift) % 23

\* week_data: the TEAM_ entries, the scored players of each position, and
\* entries the loop passes over: ids missing from PLAYER_IDS, a kicker, and a
\* player of each position without pts_half_ppr.
StatsOf(position, a) ==
    [i \in 1..a.scored[position] |->
        [kind |-> "player", position |-> position, has |-> TRUE,
         pts |-> PointsOf(a.seed, position, i)]]

WeekStats(a) ==
    [i \in 1..a.teams |-> [kind |-> "team", position |-> "", has |-> FALSE, pts |-> 0]]
    \o StatsOf("QB", a)
    \o <<[kind |-> "unknown", position |-> "QB", has |-> TRUE, pts |-> 99],
         [kind |-> "player", position |-> "K", has |-> TRUE, pts |-> 98]>>
    \o StatsOf("RB", a) \o StatsOf("WR", a) \o StatsOf("TE", a)
    \o [i \in 1..4 |->
           [kind |-> "player",
            position |-> <<"QB", "RB", "WR", "TE">>[i],
            has |-> FALSE, pts |-> 97]]

\* byes = 32, less one per TEAM_ entry
Byes(week_data) ==
    NflTeams - Len(SelectSeq(week_data, LAMBDA e : e.kind = "team"))

\* week_scores[position] before the sort
ScoresOf(week_data, position) ==
    LET listed == SelectSeq(week_data,
                            LAMBDA e : /\ e.kind = "player"
                                       /\ e.position = position
                                       /\ e.has)
    IN [i \in 1..Len(listed) |-> listed[i].pts]

\* list.sort(reverse=True)
RECURSIVE InsertDesc(_, _)
InsertDesc(x, s) ==
    IF s = <<>> THEN <<x>>
    ELSE IF x >= Head(s) THEN <<x>> \o s
    ELSE <<Head(s)>> \o InsertDesc(x, Tail(s))

RECURSIVE SortDesc(_)
SortDesc(s) == IF s = <<>> THEN <<>> ELSE InsertDesc(Head(s), SortDesc(Tail(s)))

\* (a lookup that needs a player below the cutoff rank)
NeedsOneBelow(scores, rank) == Len(scores) >= rank + 1

\* week_scores[position][rank - 1] is in range
HasRank(scores, rank) == Len(scores) >= rank

FetchReplacementScoreForWeek(a) ==
    IF ~a.ok THEN Raise
    ELSE LET week_data == WeekStats(a)
             week_scores == [p \in Positions |-> SortDesc(ScoresOf(week_data, p))]
         IN IF \E p \in Positions : ~HasRank(week_scores[p], RankCutoff(p))
            THEN Raise
            ELSE Return([QB |-> week_scores["QB"][RankCutoff("QB")],
                         RB |-> week_scores["RB"][RankCutoff("RB")],
                         WR |-> week_scores["WR"][RankCutoff("WR")],
                         TE |-> week_scores["TE"][RankCutoff("TE")],
                         byes |-> Byes(week_data)])

CallFetchReplacementScoreForWeek ==
    /\ fn = "_fetch_replacement_score_for_week"
    /\ ret = Pending
    /\ ret' = FetchReplacementScoreForWeek(args)
    /\ UNCHANGED <<orchestrator, fn, args>>

\* ----------------------------------------------------- _get_three_yr_avg --
\* Scores are counted in tenths; an average is the pair <<sum, count>>.
\* range(lo, hi + 1) as a sequence
RangeSeq(lo, hi) == [i \in 1..(hi - lo + 1) |-> lo + i - 1]

\* The cache handed to _get_three_yr_avg: records for weeks 1..18 of the
\* seasons present, the target's season, the one after it and the one four
\* years before it among them; with `holes`, every fifth week of the other
\* seasons is missing.
AvgYears(season, prior) ==
    {season - 4, season, season + 1} \cup {season - k : k \in prior}

AvgKeys(season, wk, prior, holes) ==
    {yw \in AvgYears(season, prior) \X (1..EighteenWeeks) :
        yw = <<season, wk>> \/ ~(holes /\ yw[2] % 5 = 0)}

\* byes of a cached week: 0, 2 or 4
ByesAt(yw, shift) == 2 * ((yw[1] + yw[2] + shift) % 3)

\* the threshold of a position in a cached week, rising, level or falling
\* with the week's byes
ThresholdAt(position, yw, shift, trend) ==
    LET skew == CASE position = "QB" -> 0 [] position = "RB" -> 3
                  [] position = "WR" -> 6 [] OTHER -> 9
    IN 100 + (trend * 10 * ByesAt(yw, shift))
       + ((7 * yw[2] + 3 * yw[1] + skew) % 11)

AvgCache(season, wk, prior, holes, shift, trend) ==
    [yw \in AvgKeys(season, wk, prior, holes) |->
        [QB |-> ThresholdAt("QB", yw, shift, trend),
         RB |-> ThresholdAt("RB", yw, shift, trend),
         WR |-> ThresholdAt("WR", yw, shift, trend),
         TE |-> ThresholdAt("TE", yw, shift, trend),
         byes |-> ByesAt(yw, shift)]]

ThreeYrAvgArgs ==
    {[season |-> y, week |-> w, cache |-> AvgCache(y, w, prior, holes, shift, trend)] :
        y \in {LastSeventeenWeekYear + 1, LastSeventeenWeekYear + 3},
        w \in (1..(MaxLowWeek + 1)) \cup {SeventeenWeeks, EighteenWeeks},
        prior \in SUBSET (1..HistoricalYears),
        holes \in BOOLEAN, shift \in {0, 1}, trend \in {-1, 0, 1}}

\* `for past_year in [season, season - 1, season - 2, season - 3]`
PastYears(season) == <<season, season - 1, season - 2, season - 3>>

\* the last week of range(1, 18 if past_year <= 2020 else 19)
LastWeekOf(past_year) ==
    IF past_year <= LastSeventeenWeekYear THEN SeventeenWeeks ELSE EighteenWeeks

\* (a window that takes the whole of the season three years back)
WeeksOfWholeSeasons(past_year, season, wk) ==
    IF past_year = season THEN RangeSeq(1, wk)
    ELSE RangeSeq(1, LastWeekOf(past_year))

\* `weeks` of one past_year
WeeksOf(past_year, season, wk) ==
    IF past_year = season - HistoricalYears
    THEN RangeSeq(wk, LastWeekOf(past_year))
    ELSE IF past_year = season THEN RangeSeq(1, wk)
    ELSE RangeSeq(1, LastWeekOf(past_year))

\* The cached (past_year, w) the two loops reach, in order.
GatheredOf(a, past_year) ==
    LET weeks == WeeksOf(past_year, a.season, a.week)
    IN SelectSeq([i \in 1..Len(weeks) |-> <<past_year, weeks[i]>>],
                 LAMBDA yw : yw \in DOMAIN a.cache)

Gathered(a) ==
    GatheredOf(a, PastYears(a.season)[1]) \o GatheredOf(a, PastYears(a.season)[2])
    \o GatheredOf(a, PastYears(a.season)[3]) \o GatheredOf(a, PastYears(a.season)[4])

\* three_yr_season_scores[past_position][past_byes]
BucketScores(a, gathered, past_position, past_byes) ==
    LET hits == SelectSeq(gathered, LAMBDA yw : a.cache[yw].byes = past_byes)
    IN [i \in 1..Len(hits) |-> a.cache[hits[i]][past_position]]

\* the keys of three_yr_season_scores[past_position]
BucketKeys(a) == {a.cache[yw].byes : yw \in Range(Gathered(a))}

\* sum(list)
RECURSIVE SumRange(_, _, _)
SumRange(s, lo, hi) ==
    IF lo > hi THEN 0
    ELSE IF lo = hi THEN s[lo]
    ELSE SumRange(s, lo, (lo + hi) \div 2) + SumRange(s, (lo + hi) \div 2 + 1, hi)

\* sum(list) / len(list)
Average(list) == <<SumRange(list, 1, Len(list)), Len(list)>>

\* three_yr_season_average before the correction pass
UncorrectedAverage(a) ==
    LET gathered == Gathered(a)
    IN [p \in Positions |->
           [b \in BucketKeys(a) |-> Average(BucketScores(a, gathered, p, b))]]

\* (a pass that compares the other way round)
LessAvg(x, y) == x[1] * y[2] < y[1] * x[2]

\* `average[list_of_byes[i]] > average[list_of_byes[i - 1]]`
GreaterAvg(x, y) == x[1] * y[2] > y[1] * x[2]

\* The backward pass over list_of_byes, from its last pair down to the pair
\* at (i + 1, i).
RECURSIVE BackwardPass(_, _, _)
BackwardPass(average, list_of_byes, i) ==
    IF i > Len(list_of_byes) - 1 THEN average
    ELSE LET prev == BackwardPass(average, list_of_byes, i + 1)
         IN IF GreaterAvg(prev[list_of_byes[i + 1]], prev[list_of_byes[i]])
            THEN [prev EXCEPT ![list_of_byes[i]] = prev[list_of_byes[i + 1]]]
            ELSE prev

\* (no correction pass)
CorrectedNothing(a) == UncorrectedAverage(a)

\* three_yr_season_average after the correction pass
CorrectedAverage(a) ==
    LET list_of_byes == SortedSeq(BucketKeys(a))
    IN [p \in Positions |-> BackwardPass(UncorrectedAverage(a)[p], list_of_byes, 1)]

\* new_key = f"{past_position}_3yr_avg"
NewKey(position) ==
    CASE position = "QB" -> "QB_3yr_avg" [] position = "RB" -> "RB_3yr_avg"
      [] position = "WR" -> "WR_3yr_avg" [] OTHER -> "TE_3yr_avg"

\* (a lookup that takes the lowest bye bucket)
LowestBucket(current_week_scores, buckets) == Min(DOMAIN buckets)

\* `three_yr_season_average[past_position][byes]`: the bucket of the week's
\* own bye count
OwnBucket(current_week_scores, buckets) == current_week_scores.byes

\* current_week_scores with the averages of its own bye bucket added
WithAverages(current_week_scores, average) ==
    LET added == {NewKey(p) : p \in Positions}
    IN [k \in (DOMAIN current_week_scores) \cup added |->
           IF k \in added
           THEN LET p == CHOOSE q \in Positions : NewKey(q) = k
                IN average[p][OwnBucket(current_week_scores, average[p])]
           ELSE current_week_scores[k]]

\* _get_three_yr_avg returns current_week_scores, which is the record in the
\* cache: the cache holds the returned record afterwards.
GetThreeYrAvg(a) ==
    LET target == <<a.season, a.week>>
        updated == WithAverages(a.cache[target], CorrectedAverage(a))
    IN Return([scores |-> updated,
               cache |-> [a.cache EXCEPT ![target] = updated]])

CallGetThreeYrAvg ==
    /\ fn = "_get_three_yr_avg"
    /\ ret = Pending
    /\ ret' = GetThreeYrAvg(args)
    /\ UNCHANGED <<orchestrator, fn, args>>

\* ---------------------------------------------- _calculate_ffWAR_position ----
\* Scores are in tenths of a point; an average is a pair <<sum, count>> as in
\* _get_three_yr_avg; an ffWAR is in thousandths. Sums, averages and
\* comparisons are exact here; the code makes them in floats.

\* the keys of `players` in _fetch_ffWAR, in order
FfwarPositions == <<"QB", "RB", "WR", "TE", "K", "DEF">>

\* key = f"{position}_3yr_avg"
AverageKey(position) ==
    CASE position = "QB" -> "QB_3yr_avg" [] position = "RB" -> "RB_3yr_avg"
      [] position = "WR" -> "WR_3yr_avg" [] position = "TE" -> "TE_3yr_avg"
      [] position = "K" -> "K_3yr_avg" [] OTHER -> "DEF_3yr_avg"

\* REPLACEMENT_SCORES[str(season)][str(week)]: a week's record of the
\* replacement-score cache as _get_three_yr_avg leaves it, every position's
\* average being r.
ReplacementRecord(r) ==
    WithAverages([QB |-> 150, RB |-> 80, WR |-> 70, TE |-> 50, byes |-> 0],
                 [p \in Positions |-> [b \in {0} |-> r]])

ReplacementRecords == {ReplacementRecord(r) : r \in {<<8, 1>>, <<14, 1>>, <<20, 1>>}}

\* The points of the players one manager started at the position; the j-th
\* is the player named <<manager, j>>. A player is started by one manager.
Lineups == {<<>>, <<8>>, <<14>>, <<20>>, <<8, 20>>, <<14, 14>>}

\* scores[manager] on entry
ManagerScores == [total_points : {100, 103}, players : Lineups]

\* `record` is REPLACEMENT_SCORES[str(season)][str(week)]; the week is the
\* last one of the regular season from 2021 on and a playoff week before.
FfwarPositionArgs ==
    [season : {LastSeventeenWeekYear, LastSeventeenWeekYear + 1},
     week : {FantasyWeeks},
     position : Range(FfwarPositions),
     record : ReplacementRecords,
     scores : UNION {[1..n -> ManagerScores] : n \in 1..MaxManagers}]

\* rational arithmetic on pairs <<numerator, denominator>>, denominator > 0
RatAdd(x, y) == <<x[1] * y[2] + y[1] * x[2], x[2] * y[2]>>
RatSub(x, y) == <<x[1] * y[2] - y[1] * x[2], x[2] * y[2]>>
RatLess(x, y) == x[1] * y[2] < y[1] * x[2]

\* the sum of a list of player scores
RECURSIVE SumPoints(_)
SumPoints(list) ==
    IF list = <<>> THEN 0 ELSE list[1] + SumPoints(Tail(list))

\* num_players and total_position_score after the first loop
RECURSIVE NumPlayers(_, _)
NumPlayers(scores, n) ==
    IF n = 0 THEN 0
    ELSE NumPlayers(scores, n - 1) + Len(scores[n].players)

RECURSIVE TotalPositionScore(_, _)
TotalPositionScore(scores, n) ==
    IF n = 0 THEN 0
    ELSE TotalPositionScore(scores, n - 1) + SumPoints(scores[n].players)

\* average_player_score_this_week
AveragePlayerScoreThisWeek(scores) ==
    <<TotalPositionScore(scores, Len(scores)), NumPlayers(scores, Len(scores))>>

\* player_average_for_manager: 0 for a manager without a player
PlayerAverageForManager(manager_scores) ==
    IF Len(manager_scores.players) = 0 THEN <<0, 1>>
    ELSE <<SumPoints(manager_scores.players), Len(manager_scores.players)>>

\* scores[manager]['total_minus_position']
TotalMinusPosition(scores, manager) ==
    RatSub(<<scores[manager].total_points, 1>>,
           PlayerAverageForManager(scores[manager]))

\* (an opponent's total without the week's positional average)
TotalMinusPositionOnly(scores, manager) == TotalMinusPosition(scores, manager)

\* scores[manager]['weighted_total_score']
WeightedTotalScore(scores, manager) ==
    RatAdd(TotalMinusPosition(scores, manager), AveragePlayerScoreThisWeek(scores))

\* The simulated games in loop order: every manager_playing against every
\* manager_opposing but itself.
SimulatedGames(scores) ==
    SelectSeq([k \in 1..(Len(scores) * Len(scores)) |->
                  <<((k - 1) \div Len(scores)) + 1, ((k - 1) % Len(scores)) + 1>>],
              LAMBDA game : game[1] # game[2])

\* (a replacement that scores nothing)
SimulatedScorelessReplacement(scores, manager, replacement_average) ==
    TotalMinusPosition(scores, manager)

\* simulated_replacement_score
SimulatedReplacementScore(scores, manager, replacement_average) ==
    RatAdd(TotalMinusPosition(scores, manager), replacement_average)

\* what one simulated game adds to num_wins
GameResult(scores, game, player_score, replacement_average) ==
    LET simulated_opponent_score == WeightedTotalScore(scores, game[2])
        simulated_player_score ==
            RatAdd(TotalMinusPosition(scores, game[1]), <<player_score, 1>>)
        simulated_replacement_score ==
            SimulatedReplacementScore(scores, game[1], replacement_average)
        won == IF /\ RatLess(simulated_opponent_score, simulated_player_score)
                  /\ RatLess(simulated_replacement_score, simulated_opponent_score)
               THEN 1 ELSE 0
        lost == IF /\ RatLess(simulated_player_score, simulated_opponent_score)
                   /\ RatLess(simulated_opponent_score, simulated_replacement_score)
                THEN 1 ELSE 0
    IN won - lost

\* num_wins after the first n simulated games
RECURSIVE NumWins(_, _, _, _, _)
NumWins(scores, games, n, player_score, replacement_average) ==
    IF n = 0 THEN 0
    ELSE NumWins(scores, games, n - 1, player_score, replacement_average)
         + GameResult(scores, games[n], player_score, replacement_average)

\* round(x, 3) of x = num / den, in thousandths: to the nearest, a tie to even
Round3(num, den) ==
    LET lower == (1000 * num) \div den
        rest == (1000 * num) % den
    IN IF 2 * rest < den THEN lower
       ELSE IF 2 * rest > den THEN lower + 1
       ELSE IF lower % 2 = 0 THEN lower ELSE lower + 1

\* (a score that is the net wins, not divided by the simulated games)
FfwarNetWins(scores, player_score, replacement_average) ==
    LET games == SimulatedGames(scores)
    IN 1000 * NumWins(scores, games, Len(games), player_score,
                      replacement_average)

\* ffWAR_score of one player
FfwarScore(scores, player_score, replacement_average) ==
    LET games == SimulatedGames(scores)
        num_simulated_games == Len(games)
    IN IF num_simulated_games = 0 THEN 0
       ELSE Round3(NumWins(scores, games, num_simulated_games,
                           player_score, replacement_average),
                   num_simulated_games)

\* the players of the position: <<manager, j>> for the j-th of a manager
PlayersOf(scores) ==
    UNION {{<<ManagerNames[m], j>> : j \in DOMAIN scores[m].players} : m \in DOMAIN scores}

\* ffWAR_position
FfwarPosition(scores, replacement_average, position) ==
    [player \in PlayersOf(scores) |->
        LET m == CHOOSE i \in DOMAIN scores : ManagerNames[i] = player[1]
        IN [ffWAR |-> FfwarScore(scores, scores[m].players[player[2]],
                                 replacement_average),
            manager |-> player[1],
            position |-> position]]

\* _calculate_ffWAR_position: a KeyError when the week's record has no
\* average for the position; {} when nobody started a player at it.
CalculateFfwarPosition(scores, record, position) ==
    IF AverageKey(position) \notin DOMAIN record THEN Raise
    ELSE IF NumPlayers(scores, Len(scores)) = 0 THEN Return(<<>>)
    ELSE Return(FfwarPosition(scores, record[AverageKey(position)], position))

CallCalculateFfwarPosition ==
    /\ fn = "_calculate_ffWAR_position"
    /\ ret = Pending
    /\ ret' = CalculateFfwarPosition(args.scores, args.record, args.position)
    /\ UNCHANGED <<orchestrator, fn, args>>

\* ------------------------------------------------------------ _fetch_ffWAR ----
\* What a manager started in the week, in the order of the manager's entry;
\* the j-th a manager started at a position is that position's player
\* <<manager, j>>.
WeeklyStarters ==
    {<<>>,
     <<[position |-> "QB", points |-> 20]>>,
     <<[position |-> "QB", points |-> 8], [position |-> "RB", points |-> 14]>>,
     <<[position |-> "K", points |-> 8], [position |-> "WR", points |-> 14]>>,
     <<[position |-> "TE", points |-> 8], [position |-> "DEF", points |-> 14],
       [position |-> "TE", points |-> 20]>>}

\* PLAYER_DATA[str(season)][str(week)] and the week's replacement record
FfwarArgs ==
    [record : ReplacementRecords,
     weekly_data : UNION {[1..n -> [Total_Points : {100, 103},
                                    starters : WeeklyStarters]] :
                             n \in 1..MaxManagers}]

\* players[position] after the loop over the managers
PlayersAt(weekly_data, position) ==
    [manager \in DOMAIN weekly_data |->
        LET started == SelectSeq(weekly_data[manager].starters,
                                 LAMBDA player : player.position = position)
        IN [total_points |-> weekly_data[manager].Total_Points,
            players |-> [j \in DOMAIN started |-> started[j].points]]]

\* calculated_ffWAR of one position
CalculatedFfwar(a, position) ==
    CalculateFfwarPosition(PlayersAt(a.weekly_data, position), a.record, position)

\* ffWAR_results: the records of every position, a record of position p being
\* kept under <<p, player>>
FfwarResults(a) ==
    LET keys == UNION {{<<p, player>> : player \in DOMAIN CalculatedFfwar(a, p).value} :
                          p \in Range(FfwarPositions)}
    IN [key \in keys |-> CalculatedFfwar(a, key[1]).value[key[2]]]

\* _fetch_ffWAR: an error of _calculate_ffWAR_position is not caught
FetchFfwar(a) ==
    IF \E p \in Range(FfwarPositions) : CalculatedFfwar(a, p).raised
    THEN Raise
    ELSE Return(FfwarResults(a))

CallFetchFfwar ==
    /\ fn = "_fetch_ffWAR"
    /\ ret = Pending
    /\ ret' = FetchFfwar(args)
    /\ UNCHANGED <<orchestrator, fn, args>>

\* --------------------------------------------------- _get_max_weeks ----
\* The seasons and weeks the policy is asked about; current_week is the week
\* after the builder's cap.
MaxWeeksSeasons == {ShortSeasonA, ShortSeasonB, ShortSeasonB + 1, ShortSeasonB + 2}

MaxWeeksArgs ==
    {a \in [builder : Builders, season : MaxWeeksSeasons,
            current_season : {ShortSeasonB + 1, ShortSeasonB + 2},
            current_week : {1, 10, FantasyWeeks, EighteenWeeks}] :
        a.current_week = CapCurrentWeek(a.builder, a.current_week)}

\* weeks_to_update of a season that is neither the current one nor the one
\* of the marker: range(1, max_weeks + 1).
WeeksOfWholeSeason(b, season, cs, cw) == 1..GetMaxWeeks(b, season, cs, cw)

CallGetMaxWeeks ==
    /\ fn = "_get_max_weeks"
    /\ ret = Pending
    /\ ret' = Return(GetMaxWeeks(args.builder, args.season,
                                 args.current_season, args.current_week))
    /\ UNCHANGED <<orchestrator, fn, args>>

\* ------------------------------------------------ fetch_sleeper_data ----
\* What requests.get does for the call: it raises, or it returns a response
\* with a status code and a body that is JSON text or is not.
HttpStatuses == {200, 404, 500}

SleeperArgs ==
    [transport : {"response", "exception"},
     status_code : HttpStatuses,
     body : {"json", "not json"}]

ErrorPayload == [error |-> "Failed to fetch data from Sleeper API"]

\* response.json(): the parsed payload, or an exception when the body is not
\* JSON text.
ResponseJson(a) ==
    IF a.body = "json" THEN Return(<<"payload", 200>>) ELSE Raise

FetchSleeperData(a) ==
    IF a.transport = "exception" THEN Return(<<ErrorPayload, 500>>)
    ELSE IF a.status_code # 200 THEN Return(<<ErrorPayload, 500>>)
    ELSE ResponseJson(a)

CallFetchSleeperData ==
    /\ fn = "fetch_sleeper_data"
    /\ ret = Pending
    /\ ret' = FetchSleeperData(args)
    /\ UNCHANGED <<orchestrator, fn, args>>

\* ------------------------------------------------------------ UnitSpec ----
\* The function called and the inputs it is called with.
UnitCall ==
    \/ fn = "fetch_starters_for_week" /\ args \in StartersArgs
    \/ fn = "get_starters_data" /\ args \in StartersDataArgs
    \/ fn = "_fetch_replacement_score_for_week" /\ args \in ReplacementArgs
    \/ fn = "_get_three_yr_avg" /\ args \in ThreeYrAvgArgs
    \/ fn = "_calculate_ffWAR_position" /\ args \in FfwarPositionArgs
    \/ fn = "_fetch_ffWAR" /\ args \in FfwarArgs
    \/ fn = "_get_max_weeks" /\ args \in MaxWeeksArgs
    \/ fn = "fetch_sleeper_data" /\ args \in SleeperArgs

UnitInit ==
    /\ OrchestratorAtRest
    /\ ret = Pending
    /\ UnitCall

UnitNext ==
    \/ CallFetchStartersForWeek
    \/ CallGetStartersData
    \/ CallFetchReplacementScoreForWeek
    \/ CallGetThreeYrAvg
    \/ CallCalculateFfwarPosition
    \/ CallFetchFfwar
    \/ CallGetMaxWeeks
    \/ CallFetchSleeperData

UnitSpec == UnitInit /\ [][UnitNext]_vars

\* ========================================================== unit claims ==
Returned == ret.done /\ ~ret.raised

\* A call made for the week failed: the users call, a manager's rosters call,
\* or the matchups call made for a manager whose roster id was resolved.
SomeStartersCallFailed ==
    \/ ~args.usersOk
    \/ \E i \in DOMAIN args.managers :
          \/ args.managers[i].rosters = "fail"
          \/ /\ RosterIdOf(args.season,
                           RealName(args.season, args.week,
                                    UsernameToRealName(args.display_names[i])),
                           args.managers[i], i) # None
             /\ args.managers[i].matchups = "fail"

\* C11: fetch_starters_for_week returns an empty result whenever a users,
\* rosters or matchups call made for the week fails.
C11_EmptyWhenAnyCallFails ==
    (fn = "fetch_starters_for_week" /\ Returned /\ SomeStartersCallFailed) =>
        DOMAIN ret.value = {}

RECURSIVE SumOver(_, _)
SumOver(f, S) ==
    IF S = {} THEN 0
    ELSE LET k == CHOOSE x \in S : TRUE
         IN f[k].points + SumOver(f, S \ {k})

\* C12: in every manager entry get_starters_data produces, Total_Points is
\* within 0.01 of the sum of the points of the player records in the entry.
C12_TotalIsSumOfRecords ==
    (fn = "get_starters_data" /\ Returned /\ args.matchups = "found") =>
        LET d == ret.value.Total_Points
                 - SumOver(ret.value.players, DOMAIN ret.value.players)
        IN -10 <= d /\ d <= 10

\* The scored players of a position: entries of the week's stats wd with a
\* known id, that position and a pts_half_ppr.
ScoredAt(wd, position) ==
    {i \in DOMAIN wd : /\ wd[i].kind = "player"
                       /\ wd[i].position = position
                       /\ wd[i].has}

TooFew(wd, position, least) == Cardinality(ScoredAt(wd, position)) < least

IsKthHighest(wd, v, k, position) ==
    /\ \E i \in ScoredAt(wd, position) : wd[i].pts = v
    /\ Cardinality({i \in ScoredAt(wd, position) : wd[i].pts > v}) < k
    /\ Cardinality({i \in ScoredAt(wd, position) : wd[i].pts >= v}) >= k

\* C15: given enough scored players, the threshold is the 13th-highest score
\* for QB and TE and the 31st-highest for RB and WR, over the players with a
\* known id, that position and a score; byes is 32 less the TEAM_ entries.
C15_ThresholdIsRankCutoff ==
    (fn = "_fetch_replacement_score_for_week" /\ Returned) =>
        \A wd \in {WeekStats(args)} :
            /\ IsKthHighest(wd, ret.value.QB, 13, "QB")
            /\ IsKthHighest(wd, ret.value.TE, 13, "TE")
            /\ IsKthHighest(wd, ret.value.RB, 31, "RB")
            /\ IsKthHighest(wd, ret.value.WR, 31, "WR")
            /\ ret.value.byes =
                   32 - Cardinality({i \in DOMAIN wd : wd[i].kind = "team"})

C15_Witness ==
    /\ fn = "_fetch_replacement_score_for_week" /\ Returned
    /\ ret.value.byes = 4
    /\ Cardinality(ScoredAt(WeekStats(args), "WR")) > 31
    /\ ret.value.WR # ret.value.RB
    /\ ret.value.QB # ret.value.TE

IsThreeYrAvg == fn = "_get_three_yr_avg" /\ Returned

\* Adjacent bye-count buckets present, lower first.
AdjacentBuckets ==
    LET list_of_byes == SortedSeq(BucketKeys(args))
    IN {<<list_of_byes[i], list_of_byes[i + 1]>> : i \in 1..(Len(list_of_byes) - 1)}

\* x <= y for averages <<sum, count>>
AvgAtMost(x, y) == x[1] * y[2] <= y[1] * x[2]

RECURSIVE WindowSum(_, _, _, _, _, _)
WindowSum(p, b, y, lo, hi, count) ==
    IF lo > hi THEN 0
    ELSE IF lo = hi
    THEN IF <<y, lo>> \in DOMAIN args.cache /\ args.cache[<<y, lo>>].byes = b
         THEN IF count THEN 1 ELSE args.cache[<<y, lo>>][p]
         ELSE 0
    ELSE WindowSum(p, b, y, lo, (lo + hi) \div 2, count)
         + WindowSum(p, b, y, (lo + hi) \div 2 + 1, hi, count)

SeasonEnd(y) == IF y <= 2020 THEN 17 ELSE 18

\* Over weeks 1..w of Y, all weeks of Y-1 and Y-2, and weeks w..end of Y-3.
WindowTotal(p, b, count) ==
    WindowSum(p, b, args.season, 1, args.week, count)
    + WindowSum(p, b, args.season - 1, 1, SeasonEnd(args.season - 1), count)
    + WindowSum(p, b, args.season - 2, 1, SeasonEnd(args.season - 2), count)
    + WindowSum(p, b, args.season - 3, args.week, SeasonEnd(args.season - 3), count)

\* C16: for target (Y, w) and bye count b, the uncorrected bucket average is
\* the mean of the thresholds of exactly the cached weeks with bye count b
\* among weeks 1..w of Y, all weeks of Y-1 and Y-2 (17 up to 2020, 18 after)
\* and weeks w..end of Y-3; the buckets are the bye counts of those weeks.
C16_BucketAverageOverWindow ==
    IsThreeYrAvg =>
        /\ \A b \in {0, 2, 4} :
               b \in BucketKeys(args) <=> WindowTotal("QB", b, TRUE) > 0
        /\ \A uncorrected \in {UncorrectedAverage(args)} :
              \A p \in Positions : \A b \in BucketKeys(args) :
                  uncorrected[p][b] =
                      <<WindowTotal(p, b, FALSE), WindowTotal(p, b, TRUE)>>

C16_Witness ==
    /\ IsThreeYrAvg
    /\ args.week > 1 /\ args.week < 17
    /\ args.season - 3 = 2020
    /\ \A y \in {args.season - 1, args.season - 2, args.season - 3} :
           <<y, 1>> \in DOMAIN args.cache
    /\ Cardinality(BucketKeys(args)) = 3

\* C17: _get_three_yr_avg adds the <POSITION>_3yr_avg fields to the target
\* week's record, each the corrected average of the bucket of that week's own
\* bye count; the record's thresholds and byes keep their values, and no
\* other record of the cache changes.
C17_OnlyAddsAverages ==
    IsThreeYrAvg =>
        LET target == <<args.season, args.week>>
            before == args.cache[target]
            after == ret.value.scores
        IN \A corrected \in {CorrectedAverage(args)} :
           /\ DOMAIN after = (DOMAIN before) \cup
                  {"QB_3yr_avg", "RB_3yr_avg", "WR_3yr_avg", "TE_3yr_avg"}
           /\ \A k \in DOMAIN before : after[k] = before[k]
           /\ after.QB_3yr_avg = corrected["QB"][before.byes]
           /\ after.RB_3yr_avg = corrected["RB"][before.byes]
           /\ after.WR_3yr_avg = corrected["WR"][before.byes]
           /\ after.TE_3yr_avg = corrected["TE"][before.byes]
           /\ DOMAIN ret.value.cache = DOMAIN args.cache
           /\ ret.value.cache[target] = after
           /\ \A yw \in DOMAIN args.cache :
                  yw # target => ret.value.cache[yw] = args.cache[yw]

C17_Witness ==
    /\ IsThreeYrAvg
    /\ args.cache[<<args.season, args.week>>].byes = 2
    /\ Cardinality(BucketKeys(args)) = 3
    /\ ret.value.scores.QB_3yr_avg # CorrectedAverage(args)["QB"][0]
    /\ ret.value.scores.QB_3yr_avg # ret.value.scores.TE_3yr_avg

\* The players started at the position, the points of one, and the integers
\* the comparisons of C18 are made in: every term scaled by the same positive
\* factor count(a) * count(b) * n_week * x[2].
StartedAt(scores) ==
    UNION {{<<ManagerNames[m], j>> : j \in DOMAIN scores[m].players} :
              m \in DOMAIN scores}

PointsStarted(scores, player) ==
    scores[CHOOSE m \in DOMAIN scores : ManagerNames[m] = player[1]].players[player[2]]

RECURSIVE SumOf(_, _)
SumOf(f, S) ==
    IF S = {} THEN 0
    ELSE LET k == CHOOSE x \in S : TRUE
         IN f[k] + SumOf(f, S \ {k})

PositionSum(scores, m) == SumOf(scores[m].players, DOMAIN scores[m].players)

PositionCount(scores, m) ==
    IF scores[m].players = <<>> THEN 1 ELSE Len(scores[m].players)

WeekSum(scores) ==
    SumOf([m \in DOMAIN scores |-> PositionSum(scores, m)], DOMAIN scores)

WeekCount(scores) ==
    SumOf([m \in DOMAIN scores |-> Len(scores[m].players)], DOMAIN scores)

\* total_minus_position(a) + x, x = <<numerator, denominator>>, scaled
ScaledWith(scores, a, b, x) ==
    (scores[a].total_points * PositionCount(scores, a) * x[2]
         - PositionSum(scores, a) * x[2]
         + x[1] * PositionCount(scores, a))
    * PositionCount(scores, b) * WeekCount(scores)

\* weighted_total_score(b), scaled
ScaledOpponent(scores, a, b, x) ==
    (scores[b].total_points * PositionCount(scores, b) * WeekCount(scores)
         - PositionSum(scores, b) * WeekCount(scores)
         + WeekSum(scores) * PositionCount(scores, b))
    * PositionCount(scores, a) * x[2]

OrderedPairs(scores) ==
    {pair \in (DOMAIN scores) \X (DOMAIN scores) : pair[1] # pair[2]}

\* W: the pairs the player wins and the replacement loses
PairsWon(scores, points, x) ==
    {pair \in OrderedPairs(scores) :
        /\ ScaledWith(scores, pair[1], pair[2], <<points * x[2], x[2]>>)
               > ScaledOpponent(scores, pair[1], pair[2], x)
        /\ ScaledWith(scores, pair[1], pair[2], x)
               < ScaledOpponent(scores, pair[1], pair[2], x)}

\* L: the pairs the player loses and the replacement wins
PairsLost(scores, points, x) ==
    {pair \in OrderedPairs(scores) :
        /\ ScaledWith(scores, pair[1], pair[2], <<points * x[2], x[2]>>)
               < ScaledOpponent(scores, pair[1], pair[2], x)
        /\ ScaledWith(scores, pair[1], pair[2], x)
               > ScaledOpponent(scores, pair[1], pair[2], x)}

CalculatedFor ==
    /\ fn = "_calculate_ffWAR_position" /\ Returned
    /\ StartedAt(args.scores) # {}

AtReplacementAndAverage(scores, player, R) ==
    /\ PointsStarted(scores, player) * R[2] = R[1]
    /\ PointsStarted(scores, player) * WeekCount(scores) = WeekSum(scores)

\* C19: a player whose points equal both the position's replacement score
\* and the league-wide positional average of the week gets ffWAR 0, whatever
\* the managers and their totals.
C19_ZeroAtReplacementAndAverage ==
    CalculatedFor =>
        \A player \in StartedAt(args.scores) :
            AtReplacementAndAverage(args.scores, player,
                                    args.record[AverageKey(args.position)])
                => ret.value[player].ffWAR = 0

C19_Witness ==
    /\ CalculatedFor
    /\ Len(args.scores) >= 2
    /\ \E m \in DOMAIN args.scores : Len(args.scores[m].players) = 2
    /\ \E m1, m2 \in DOMAIN args.scores :
           args.scores[m1].total_points # args.scores[m2].total_points
    /\ \E player \in StartedAt(args.scores) :
           AtReplacementAndAverage(args.scores, player,
                                   args.record[AverageKey(args.position)])

\* nobody started a player at the position in the week
NobodyStartedAt(weekly_data, position) ==
    \A m \in DOMAIN weekly_data :
        \A j \in DOMAIN weekly_data[m].starters :
            weekly_data[m].starters[j].position # position

\* the week's players of a position, as FfwarResults keys them
StartedKeys(weekly_data, position) ==
    UNION {{<<position, <<ManagerNames[m], j>>>> :
               j \in 1..Cardinality({i \in DOMAIN weekly_data[m].starters :
                          weekly_data[m].starters[i].position = position})} :
              m \in DOMAIN weekly_data}

\* C20: for each of QB, RB, WR, TE, K and DEF, when no manager started a
\* player at the position in the week, the computation yields no records
\* for the position and raises no error, and _fetch_ffWAR still returns the
\* records of the other positions.
C20_NoPlayersNoRecordsNoError ==
    /\ (fn = "_calculate_ffWAR_position" /\ ret.done
            /\ StartedAt(args.scores) = {})
           => (Returned /\ DOMAIN ret.value = {})
    /\ (fn = "_fetch_ffWAR" /\ ret.done) =>
           \A position \in Range(FfwarPositions) :
               NobodyStartedAt(args.weekly_data, position) =>
                   /\ Returned
                   /\ DOMAIN ret.value =
                          UNION {StartedKeys(args.weekly_data, p) :
                                    p \in Range(FfwarPositions)}

\* the manager and the position of the week's player kept under key
StartedBy(key) == key[2][1]
StartedPosition(key) == key[1]

\* C21: for a (season, week) the ffWAR builder processes, the ffWAR entry
\* has exactly one record for each player the starters cache records for the
\* week, at any of the six positions, and the record carries the manager who
\* started the player and the position the player had that week.
C21_OneRecordPerStartedPlayer ==
    (fn = "_fetch_ffWAR" /\ ret.done) =>
        /\ Returned
        /\ DOMAIN ret.value =
               UNION {StartedKeys(args.weekly_data, p) : p \in Range(FfwarPositions)}
        /\ \A key \in DOMAIN ret.value :
               /\ ret.value[key].manager = StartedBy(key)
               /\ ret.value[key].position = StartedPosition(key)

\* a playoff week: week 14 or later in 2019 and 2020, week 15 or later from
\* 2021 on
IsPlayoffWeek(season, wk) ==
    wk > (IF season \in {ShortSeasonA, ShortSeasonB}
          THEN ShortFantasyWeeks ELSE FantasyWeeks)

\* the value of a regular-season week for the same scores and baseline
RegularSeasonValue(scores, player, R) ==
    IF Len(scores) = 1 THEN 0
    ELSE Round3(Cardinality(PairsWon(scores, PointsStarted(scores, player), R))
                - Cardinality(PairsLost(scores, PointsStarted(scores, player), R)),
                Len(scores) * (Len(scores) - 1))

\* C22: for identical scores and replacement baseline, the ffWAR of a playoff
\* week is one third of that of a regular-season week: after rounding, 3
\* times the playoff value is within 0.01 of the regular value.
C22_PlayoffWeekIsOneThird ==
    (CalculatedFor /\ IsPlayoffWeek(args.season, args.week)) =>
        \A player \in StartedAt(args.scores) :
            LET regular == RegularSeasonValue(args.scores, player,
                               args.record[AverageKey(args.position)])
                gap == 3 * ret.value[player].ffWAR - regular
            IN gap < 10 /\ -gap < 10

\* C23: in a playoff week every player record of the roster that finished
\* 1st, 2nd or 3rd carries that placement; the records of other rosters, and
\* all records of other weeks, carry no placement field.
C23_PlacedRosterRecordsCarryPlacement ==
    (fn = "get_starters_data" /\ Returned /\ args.matchups = "found") =>
        \A name \in DOMAIN ret.value.players :
            IF args.placed = None
            THEN "placement" \notin DOMAIN ret.value.players[name]
            ELSE /\ "placement" \in DOMAIN ret.value.players[name]
                 /\ ret.value.players[name].placement = args.placed

\* the id has a known full_name and a known position
NameAndPositionKnown(info) ==
    /\ info.known
    /\ info.full_name # "Unknown Player"
    /\ info.position # "Unknown Position"

\* the points of a starter: its entry in players_points, 0 without one
PointsOrZero(entry) == IF entry.has THEN entry.points ELSE 0

\* what the n-th starter changes in manager_data
StarterStep(a, n) ==
    LET before == ManagerData(a, n - 1)
        after == ManagerData(a, n)
        info == a.PLAYER_IDS[a.starters[n]]
        points == PointsOrZero(a.players_points[a.starters[n]])
    IN IF NameAndPositionKnown(info)
       THEN /\ DOMAIN after.players = (DOMAIN before.players) \cup {info.full_name}
            /\ after.players[info.full_name] =
                   [points |-> points, position |-> info.position]
            /\ \A name \in (DOMAIN before.players) \ {info.full_name} :
                   after.players[name] = before.players[name]
            /\ after.Total_Points = before.Total_Points + points
       ELSE after = before

\* C24: get_starters_data records a starter if and only if its id has a
\* known full_name and a known position; a skipped starter adds nothing to
\* Total_Points, and a recorded starter without an entry in players_points
\* is recorded with 0 points.
C24_RecordsKnownStartersOnly ==
    (fn = "get_starters_data" /\ Returned /\ args.matchups = "found") =>
        /\ \A n \in 1..Len(args.starters) : StarterStep(args, n)
        /\ ret.value.players = ManagerData(args, Len(args.starters)).players
        /\ DOMAIN ret.value.players =
               {args.PLAYER_IDS[id].full_name :
                   id \in {x \in Range(args.starters) :
                              NameAndPositionKnown(args.PLAYER_IDS[x])}}

C24_Witness ==
    /\ fn = "get_starters_data" /\ Returned /\ args.matchups = "found"
    /\ \E n \in 1..Len(args.starters) :
           /\ args.PLAYER_IDS[args.starters[n]].known
           /\ ~NameAndPositionKnown(args.PLAYER_IDS[args.starters[n]])
    /\ \E n \in 1..Len(args.starters) :
           /\ NameAndPositionKnown(args.PLAYER_IDS[args.starters[n]])
           /\ ~args.players_points[args.starters[n]].has
           /\ ret.value.players[args.PLAYER_IDS[args.starters[n]].full_name].points = 0

\* the name the i-th user of the users call is recorded under
\* the real name the table gives the i-th user's display name
MappedName(i) ==
    CASE args.display_names[i] = "dpereira7" -> "Davey"
      [] args.display_names[i] = "codestoppable" -> "Cody"
      [] args.display_names[i] = "tommylowry" -> "Tommy"
      [] OTHER -> "Unknown Manager"

RecordedName(season, wk, i) ==
    IF MappedName(i) = "Cody" /\ season = 2019 /\ wk \in 1..3
    THEN "Tommy" ELSE MappedName(i)

\* the roster list gives no roster id for the i-th user
Unresolved(i) == args.managers[i].rosters # "found"

\* the entry under a name was produced for user j, whose roster was resolved
ProducedFor(name, j) ==
    /\ ~Unresolved(j)
    /\ RecordedName(args.season, args.week, j) = name
    /\ args.managers[j].matchups = "found"
    /\ ret.value[name].roster_id = j

IsDaveyIn2024(i) ==
    args.season = 2024 /\ RecordedName(args.season, args.week, i) = "Davey"

\* C25: a manager whose roster id cannot be resolved from the roster list
\* produces no entry in the week's data, except that Davey in season 2024 is
\* given roster id 4 and is recorded from that roster's matchup.
C25_UnresolvedManagerSkipped ==
    (fn = "fetch_starters_for_week" /\ Returned /\ args.usersOk) =>
        \A i \in DOMAIN args.managers :
            Unresolved(i) =>
                LET name == RecordedName(args.season, args.week, i)
                IN IF IsDaveyIn2024(i)
                   THEN IF args.managers[i].matchups = "found"
                        THEN /\ name \in DOMAIN ret.value
                             /\ ret.value[name].roster_id = 4
                        ELSE name \notin DOMAIN ret.value
                   ELSE name \in DOMAIN ret.value =>
                            \E j \in (DOMAIN args.managers) \ {i} :
                                ProducedFor(name, j)

C25_Witness ==
    /\ fn = "fetch_starters_for_week" /\ Returned /\ args.usersOk
    /\ \E i, j \in DOMAIN args.managers :
           /\ Unresolved(i) /\ IsDaveyIn2024(i)
           /\ "Davey" \in DOMAIN ret.value
           /\ ret.value["Davey"].roster_id = 4
           /\ Unresolved(j) /\ ~IsDaveyIn2024(j)
           /\ args.managers[j].matchups = "found"
           /\ RecordedName(args.season, args.week, j) \notin DOMAIN ret.value

\* C26: a user whose display name maps to Cody is recorded under the manager
\* name Tommy in season 2019 weeks 1 to 3, and under Cody in 2019 week 4
\* onward and in every other season (the entry under a name being that of
\* the last user recorded under it).
C26_CodyRecordedAsTommyEarly2019 ==
    (fn = "fetch_starters_for_week" /\ Returned /\ args.usersOk) =>
        \A i \in DOMAIN args.managers :
            (/\ MappedName(i) = "Cody"
             /\ ~Unresolved(i)
             /\ args.managers[i].matchups = "found") =>
                LET name == IF args.season = 2019 /\ args.week <= 3
                            THEN "Tommy" ELSE "Cody"
                    other == IF name = "Tommy" THEN "Cody" ELSE "Tommy"
                IN /\ name \in DOMAIN ret.value
                   /\ \/ ret.value[name].roster_id = i
                      \/ \E j \in DOMAIN args.managers :
                             j > i /\ ProducedFor(name, j)
                   /\ (other \in DOMAIN ret.value =>
                           ret.value[other].roster_id # i)

C26_Witness ==
    /\ fn = "fetch_starters_for_week" /\ Returned /\ args.usersOk
    /\ args.season = 2019 /\ args.week = 3
    /\ "Tommy" \in DOMAIN ret.value
    /\ "Cody" \notin DOMAIN ret.value
    /\ \E i \in DOMAIN args.managers :
           MappedName(i) = "Cody" /\ ret.value["Tommy"].roster_id = i

\* The last week a builder may process of a season that is the current one
\* or a past one, the external current week being upWeek.
CappedAt(w, cap) == IF w > cap THEN cap ELSE w

FantasyPolicy(season) ==
    IF season = current_season THEN CappedAt(upWeek, 14)
    ELSE IF season \in {2019, 2020} THEN 13 ELSE 14

NflPolicy(season) ==
    IF season = current_season THEN CappedAt(upWeek, 18)
    ELSE IF season <= 2020 THEN 17 ELSE 18

CachedWeeks == {p[2] : p \in DOMAIN cache.data}
PersistedWeeks == IF disk.exists THEN {p[2] : p \in DOMAIN disk.cache.data} ELSE {}

C28_NflWeekPolicy ==
    builder = "replacement" =>
        /\ InRun => current_week = CappedAt(upWeek, 18)
        /\ (pc = "week" /\ LoopYears(builder, leagueIds)[yi] <= current_season) =>
               max_weeks = NflPolicy(LoopYears(builder, leagueIds)[yi])
        /\ InRun =>
               \A i \in 1..Len(fetched) :
                   fetched[i][1] <= current_season =>
                       fetched[i][2] <= NflPolicy(fetched[i][1])
        /\ \A w \in CachedWeeks \cup PersistedWeeks : w <= 18

C28_Witness ==
    /\ builder = "replacement"
    /\ pc = "done"
    /\ upWeek > 18
    /\ current_season = 2021
    /\ OnDisk(<<2021, 18>>)
    /\ OnDisk(<<2020, 17>>)
    /\ ~OnDisk(<<2020, 18>>)
    /\ OnDisk(<<2017, 17>>)

\* The per-week fetches of a run that processes seasons 2019 and 2020 whole.
FetchesOfShortSeasons(a) ==
    Cardinality(WeeksOfWholeSeason(a.builder, 2019, a.current_season, a.current_week))
    + Cardinality(WeeksOfWholeSeason(a.builder, 2020, a.current_season, a.current_week))

PastSeasonAsked ==
    /\ fn = "_get_max_weeks"
    /\ Returned
    /\ args.builder \in {"starters", "ffWAR"}
    /\ args.season < args.current_season

SeasonsBeforeFirst == {Min(Range(leagueIds)) - k : k \in 1..3}

\* The weeks of the seasons before the first configured one: 17 each.
WeeksBeforeFirst == SeasonsBeforeFirst \X (1..17)

\* C30: the replacement builder also processes the three seasons before the
\* first configured season, in ascending order before it, and a week's record
\* carries the 3-year averages if and only if the season three years before
\* the week's season is present in the cache.
C30_HistoricalSeasonsThenAverages ==
    builder = "replacement" =>
        /\ InRun =>
               \A i \in 1..(Len(fetched) - 1) : fetched[i][1] <= fetched[i + 1][1]
        /\ (InRun /\ ~disk.exists) =>
               \A F \in {Range(fetched)} :
                   (\E p \in F : p[1] >= Min(Range(leagueIds))) =>
                       WeeksBeforeFirst \subseteq F
        /\ \A p \in DOMAIN cache.data :
               cache.data[p].avg <=> (p[1] - 3) \in cache.years

C30_Witness ==
    /\ builder = "replacement"
    /\ pc = "done"
    /\ OnDisk(<<2017, 17>>)
    /\ ~disk.cache.data[<<2017, 17>>].avg
    /\ OnDisk(<<2019, 1>>)
    /\ ~disk.cache.data[<<2019, 1>>].avg
    /\ OnDisk(<<2020, 1>>)
    /\ disk.cache.data[<<2020, 1>>].avg

\* C31: fetch_sleeper_data never raises: a transport exception, a non-200
\* status and a body that cannot be decoded as JSON each yield
\* ({"error": ...}, 500); a successful call yields (payload, 200).
C31_NeverRaises ==
    (fn = "fetch_sleeper_data" /\ ret.done) =>
        /\ ~ret.raised
        /\ ret.value =
               IF /\ args.transport = "response"
                  /\ args.status_code = 200
                  /\ args.body = "json"
               THEN <<"payload", 200>>
               ELSE <<ErrorPayload, 500>>

\* The week a season that is no longer the current one is processed up to.
PastSeasonWeeks(y) == GetMaxWeeks(builder, y, None, None)

\* The (season, week) pairs a persisted cache with marker m is to hold: those
\* at or before the marker, within the season's weeks (the marker's own week
\* for the marker's season).
HeldUpTo(m) ==
    {p \in Range(LoopYears(builder, leagueIds)) \X (1..EighteenWeeks) :
        /\ LexLe(p, m)
        /\ p[1] < m[1] => p[2] <= PastSeasonWeeks(p[1])}

\* C32: marker and data agree in every persisted cache: with marker (S, w) a
\* week entry exists for (season, week) if and only if (season, week) is at or
\* before (S, w) and within the season's max week; no entry exists after the
\* marker, and marker week 0 never coexists with entries of season S.
C32_MarkerAndDataAgree ==
    disk.exists =>
        \A m \in {Marker(disk.cache)} :
            /\ \A p \in DOMAIN disk.cache.data : LexLe(p, m)
            /\ m[2] = 0 => \A p \in DOMAIN disk.cache.data : p[1] # m[1]
            /\ HeldUpTo(m) \subseteq DOMAIN disk.cache.data

\* ------------------------------------------------- update_all_caches ----
\* One process that goes through the three builders in the order of
\* update_all_caches, each builder with its own cache file.  The ffWAR module
\* binds REPLACEMENT_SCORES and PLAYER_DATA when it is loaded, from a run of
\* the replacement and of the starters builder, and _fetch_ffWAR and
\* _calculate_ffWAR_position read these two names.
BuilderAfter(b) ==
    CASE b = "starters" -> "replacement"
      [] b = "replacement" -> "ffWAR"
      [] OTHER -> "starters"

\* The module-level assignments of ffWAR_loader: what the two runs returned.
LoadedSnapshot(f) ==
    [loaded |-> TRUE,
     REPLACEMENT_SCORES |-> PopMarker(f["replacement"].cache),
     PLAYER_DATA |-> PopMarker(f["starters"].cache)]

\* PLAYER_DATA[str(season)][str(week)] is there.
HasWeeklyData(s, p) == HasEntry(s.PLAYER_DATA, p[1], p[2])

\* REPLACEMENT_SCORES[str(season)][str(week)][key] is there for the key of
\* the position: the replacement builder writes the averages of its own
\* positions, and only into records it augmented.
HasReplacementAverage(s, p, position) ==
    /\ HasEntry(s.REPLACEMENT_SCORES, p[1], p[2])
    /\ s.REPLACEMENT_SCORES.data[p].avg
    /\ position \in Positions

\* _fetch_ffWAR(season, week) meets no missing key.
FfwarInputsPresent(s, p) ==
    /\ HasWeeklyData(s, p)
    /\ \A i \in DOMAIN FfwarPositions :
           HasReplacementAverage(s, p, FfwarPositions[i])

\* The (season, week) the inner loop is at.
AtWeek == <<LoopYears(builder, leagueIds)[yi], week>>

\* update_all_caches goes on to the next builder (or is called again).
CallNextBuilder ==
    /\ pc \in {"done", "aborted"}
    /\ builder = "ffWAR" => passes + 1 < MaxPasses
    /\ builder' = BuilderAfter(builder)
    /\ passes' = IF builder = "ffWAR" THEN passes + 1 ELSE passes
    /\ files' = [files EXCEPT ![builder] = disk]
    /\ disk' = files[BuilderAfter(builder)]
    /\ snapshot' = IF BuilderAfter(builder) = "ffWAR" /\ ~snapshot.loaded
                   THEN LoadedSnapshot(files')
                   ELSE snapshot
    /\ pc' = "idle"
    /\ cache' = NoCache
    /\ current_season' = 0 /\ current_week' = 0
    /\ last_updated_season' = 0 /\ last_updated_week' = 0
    /\ yi' = 0 /\ week' = 0 /\ max_weeks' = 0
    /\ returned' = NoCache
    /\ loaded' = NoCache
    /\ fetched' = <<>>
    /\ failedAt' = NoWeek
    /\ sameEnv' = FALSE
    /\ lastEnv' = NoEnv
    /\ runs' = 0
    /\ UNCHANGED <<leagueIds, upstream, events, unit>>

\* _fetch_ffWAR raises KeyError: a week or a key is missing from
\* PLAYER_DATA or REPLACEMENT_SCORES; the exception leaves
\* load_or_update_ffWAR_cache before save_cache.
FfwarKeyError ==
    /\ pc = "week"
    /\ builder = "ffWAR"
    /\ ~FfwarInputsPresent(snapshot, AtWeek)
    /\ pc' = "aborted"
    /\ failedAt' = AtWeek
    /\ fetched' = Append(fetched, AtWeek)
    /\ UNCHANGED <<config, unit, upstream, disk, locals, returned, loaded,
                   sameEnv, lastEnv, runs, events>>

PipelineInit == Init /\ builder = "starters"

PipelineNext ==
    \/ StartRun /\ runs = 0
    \/ YearStep
    \/ YearsDone
    \/ WeekStep /\ (builder = "ffWAR" => FfwarInputsPresent(snapshot, AtWeek))
    \/ FfwarKeyError
    \/ SaveAndReturn
    \/ CallNextBuilder
    \/ TimePasses /\ builder = "ffWAR"

PipelineSpec == PipelineInit /\ [][PipelineNext]_vars

\* C33: from absent caches, after the starters and the replacement builder
\* have each run once, every (season, week) the ffWAR builder processes has
\* an entry in the starters cache and a replacement record holding every
\* <POSITION>_3yr_avg key the ffWAR builder looks up, and the ffWAR run
\* completes without a missing-key error.
C33_FfwarInputsPresentAfterOnePass ==
    (builder = "ffWAR" /\ passes = 0) =>
        /\ pc = "week" => FfwarInputsPresent(snapshot, AtWeek)
        /\ pc # "aborted"

\* What a read of a cache at (season, week) gives: the entry, or nothing (a
\* KeyError).
EntryAt(c, p) == IF HasEntry(c, p[1], p[2]) THEN {c.data[p]} ELSE {}

\* The cache the most recent run of a builder produced.
MostRecent(b) == files[b].cache

\* C34: in update_all_caches, and in any later call in the same process, the
\* ffWAR computation for a week reads the starters and replacement data that
\* the most recent runs of those builders produced, not the snapshot taken
\* when the ffWAR module was first loaded.
C34_FfwarReadsMostRecentData ==
    (builder = "ffWAR" /\ pc = "week") =>
        /\ EntryAt(snapshot.PLAYER_DATA, AtWeek)
               = EntryAt(MostRecent("starters"), AtWeek)
        /\ EntryAt(snapshot.REPLACEMENT_SCORES, AtWeek)
               = EntryAt(MostRecent("replacement"), AtWeek)

\* v is the greatest of the uncorrected averages of the buckets from b up.
IsMaxFrom(uncorrected, b, v) ==
    /\ \E c \in DOMAIN uncorrected : c >= b /\ uncorrected[c] = v
    /\ \A c \in DOMAIN uncorrected : c >= b => AvgAtMost(uncorrected[c], v)

MarginOverReplacement(scores, player, R) ==
    PointsStarted(scores, player) * R[2] - R[1]

\* C36: every ffWAR score lies in [-1, 1] (in thousandths: -1000..1000) and
\* its sign follows the player's margin over replacement: points above the
\* replacement score give ffWAR >= 0, points below give ffWAR <= 0 and points
\* equal to it give exactly 0, whatever the managers' totals.
C36_FfwarBoundedAndSignedByMargin ==
    CalculatedFor =>
        \A player \in DOMAIN ret.value :
            \A margin \in {MarginOverReplacement(args.scores, player,
                               args.record[AverageKey(args.position)])} :
                /\ ret.value[player].ffWAR >= -1000
                /\ ret.value[player].ffWAR <= 1000
                /\ margin > 0 => ret.value[player].ffWAR >= 0
                /\ margin < 0 => ret.value[player].ffWAR <= 0
                /\ margin = 0 => ret.value[player].ffWAR = 0

C36_Witness ==
    /\ CalculatedFor
    /\ args.scores[1].total_points # args.scores[Len(args.scores)].total_points
    /\ \E player \in DOMAIN ret.value :
           /\ MarginOverReplacement(args.scores, player,
                  args.record[AverageKey(args.position)]) < 0
           /\ ret.value[player].ffWAR < 0
    /\ \E player \in DOMAIN ret.value :
           /\ MarginOverReplacement(args.scores, player,
                  args.record[AverageKey(args.position)]) = 0
           /\ PointsStarted(args.scores, player) * WeekCount(args.scores)
                  # WeekSum(args.scores)

\* The users whose entry fetch_starters_for_week writes: the roster resolved
\* (or Davey's of 2024) and listed in the week's matchups.
WritesEntry(i) ==
    /\ ~Unresolved(i) \/ IsDaveyIn2024(i)
    /\ args.managers[i].matchups = "found"

\* The roster the i-th user's entry is read from.
ResolvedRoster(i) == IF Unresolved(i) THEN 4 ELSE i

\* C37: in fetch_starters_for_week, distinct users with distinct resolved
\* rosters never write to the same manager key: the week's data holds one
\* entry per such user whose roster appears in the matchups, and no user's
\* entry overwrites another's (unmapped display names and the 2019
\* Cody-to-Tommy rename included).
C37_OneEntryPerUser ==
    (fn = "fetch_starters_for_week" /\ Returned /\ args.usersOk) =>
        \A written \in {{i \in DOMAIN args.managers : WritesEntry(i)}} :
            /\ Cardinality(DOMAIN ret.value) = Cardinality(written)
            /\ \A i \in written :
                   /\ RecordedName(args.season, args.week, i) \in DOMAIN ret.value
                   /\ ret.value[RecordedName(args.season, args.week, i)].roster_id
                          = ResolvedRoster(i)

====
